---- MODULE Spec2Model ----
(***************************************************************************)
(* Model of the go-todo CRUD service (src/todo/handlers.go): the Todo      *)
(* table behind gorm (Postgres dialect), the TodoRepository operations     *)
(* and the five fiber handlers registered under /todo.                     *)
(*                                                                         *)
(* The table is the set of its rows.  A row is a Todo value; the gorm.Model*)
(* columns that matter to the handlers are ID and DeletedAt (soft delete). *)
(* CreatedAt/UpdatedAt are wall-clock values no handler reads and are not  *)
(* part of the state.  Requests are served concurrently; every repository  *)
(* call is one statement of the store, so the only handler with two store  *)
(* calls, Update, is split at the point between Find and Save.             *)
(***************************************************************************)
EXTENDS Integers, Sequences, FiniteSets, TLC

\* ---------------------------------------------------------------- bounds
\* Largest id the id sequence of the table hands out in a run.
MaxId == 2

\* PUT requests that may be in flight (between Find and Save) at once.
Requests == {"r1", "r2"}

\* ---------------------------------------------------------------- values
\* DeletedAt: not deleted, a time a client wrote into a body, the time of a
\* soft delete.
NilTime == "nil"
SomeTime == "t"
DeleteTime == "now"

PENDING == "pending"

DigitVal == [c \in {"0", "1", "2", "3", "4", "5", "6", "7", "8", "9"} |->
               CASE c = "0" -> 0 [] c = "1" -> 1 [] c = "2" -> 2 [] c = "3" -> 3
                 [] c = "4" -> 4 [] c = "5" -> 5 [] c = "6" -> 6 [] c = "7" -> 7
                 [] c = "8" -> 8 [] c = "9" -> 9]

DigitChar == <<"0", "1", "2", "3", "4", "5", "6", "7", "8", "9">>

\* The zero value of the Todo struct (new(Todo), var todo Todo).
ZeroTodo == [ID |-> 0, Name |-> "", Description |-> "", Status |-> "",
             DeletedAt |-> NilTime]

\* ---------------------------------------------------------------- inputs
\* The :id path segment, as the characters the client sent.
Params == {<<DigitChar[i + 1]>> : i \in 0..MaxId} \cup {<<"-", "1">>, <<"x">>}

\* A request body: none, not decodable, or a JSON object given as its set
\* of <<key, value>> members.
NoBody == [form |-> "none", fields |-> {}]

MalformedBody == [form |-> "malformed", fields |-> {}]

JSONBody(members) == [form |-> "json", fields |-> members]

Bodies ==
  { MalformedBody,
    JSONBody({<<"name", "a">>, <<"description", "d">>, <<"status", PENDING>>}),
    JSONBody({<<"name", "b">>, <<"status", PENDING>>}),
    JSONBody({<<"description", "d">>}),
    JSONBody({<<"name", "b">>, <<"status", PENDING>>, <<"ID", "1">>}),
    JSONBody({<<"name", "a">>, <<"description", "d">>, <<"status", PENDING>>,
              <<"DeletedAt", SomeTime>>}) }

\* The inputs of the runs with PUT requests in flight.
ConcParams == {<<"1">>, <<"x">>}

ConcBodies ==
  { MalformedBody,
    JSONBody({<<"name", "a">>, <<"description", "d">>, <<"status", PENDING>>}),
    JSONBody({<<"name", "b">>}) }

\* ---------------------------------------------------------------- state
VARIABLES rows, seq, pending, resp

vars == <<rows, seq, pending, resp>>

\* ---------------------------------------------------------------- helpers
HasKey(body, k) == \E m \in body.fields : m[1] = k

Member(body, k) == (CHOOSE m \in body.fields : m[1] = k)[2]

RECURSIVE DecimalValue(_)
DecimalValue(s) == IF s = <<>> THEN 0
                   ELSE DecimalValue(SubSeq(s, 1, Len(s) - 1)) * 10
                          + DigitVal[s[Len(s)]]

\* strconv.Atoi: optional sign, then one or more decimal digits; on a
\* syntax error the value is 0 and err is set.
Atoi(s) ==
  LET signed == Len(s) > 0 /\ s[1] \in {"+", "-"}
      digits == IF signed THEN Tail(s) ELSE s
      ok == digits # <<>> /\ \A k \in 1..Len(digits) : digits[k] \in DOMAIN DigitVal
  IN IF ~ok THEN [val |-> 0, err |-> TRUE]
     ELSE [val |-> IF signed /\ s[1] = "-" THEN 0 - DecimalValue(digits)
                   ELSE DecimalValue(digits),
           err |-> FALSE]

\* c.BodyParser(new(Todo)): decodes the members the struct has a field for
\* (the json tags of Todo and the promoted fields of gorm.Model); a member
\* that is absent leaves the zero value.
BodyParser(body) ==
  IF body.form # "json" THEN [data |-> ZeroTodo, err |-> TRUE]
  ELSE [data |-> [ID |-> IF HasKey(body, "ID") THEN DigitVal[Member(body, "ID")] ELSE 0,
                  Name |-> IF HasKey(body, "name") THEN Member(body, "name") ELSE "",
                  Description |-> IF HasKey(body, "description")
                                  THEN Member(body, "description") ELSE "",
                  Status |-> IF HasKey(body, "status") THEN Member(body, "status") ELSE "",
                  DeletedAt |-> IF HasKey(body, "DeletedAt")
                                THEN Member(body, "DeletedAt") ELSE NilTime],
        err |-> FALSE]

\* The rows a gorm query sees: soft-deleted rows are filtered out.
Live(db) == {t \in db : t.DeletedAt = NilTime}

\* ------------------------------------------------------------ repository
FindAll(db) == Live(db)

\* Find that decides on the row count alone.
FindByRowCount(db, id) ==
  LET hit == {t \in Live(db) : t.ID = id}
      todo == IF hit = {} THEN ZeroTodo ELSE CHOOSE t \in hit : TRUE
  IN [todo |-> todo, err |-> (hit = {})]

\* Find: the row with that primary key, else the zero Todo and
\* ErrRecordNotFound; an empty Name is reported as "Todo not found" too.
Find(db, id) ==
  LET hit == {t \in Live(db) : t.ID = id}
      todo == IF hit = {} THEN ZeroTodo ELSE CHOOSE t \in hit : TRUE
  IN [todo |-> todo, err |-> (hit = {} \/ todo.Name = "")]

\* Create that never writes the generated key back into the value.
CreateWithoutAssignedId(db, sq, todo) ==
  LET id == IF todo.ID = 0 THEN sq + 1 ELSE todo.ID
      nsq == IF todo.ID = 0 THEN sq + 1 ELSE sq
  IN IF \E t \in db : t.ID = id
     THEN [todo |-> todo, err |-> TRUE, db |-> db, seq |-> nsq]
     ELSE [todo |-> todo, err |-> FALSE, db |-> db \cup {[todo EXCEPT !.ID = id]},
           seq |-> nsq]

\* Create: INSERT.  A zero ID takes the next value of the table's id
\* sequence (consumed even when the insert fails); a non-zero ID is
\* inserted as given.  The primary key constraint rejects a duplicate id.
Create(db, sq, todo) ==
  LET id == IF todo.ID = 0 THEN sq + 1 ELSE todo.ID
      nsq == IF todo.ID = 0 THEN sq + 1 ELSE sq
      row == [todo EXCEPT !.ID = id]
  IN IF \E t \in db : t.ID = id
     THEN [todo |-> todo, err |-> TRUE, db |-> db, seq |-> nsq]
     ELSE [todo |-> row, err |-> FALSE, db |-> db \cup {row}, seq |-> nsq]

\* Save that writes only the non-zero columns (gorm Updates): a column the
\* value leaves empty keeps what the row holds.
SaveNonZeroColumns(db, user) ==
  LET hit == {t \in Live(db) : t.ID = user.ID}
      merged(t) == [t EXCEPT !.Name = IF user.Name = "" THEN @ ELSE user.Name,
                             !.Description = IF user.Description = "" THEN @
                                             ELSE user.Description,
                             !.Status = IF user.Status = "" THEN @ ELSE user.Status]
  IN IF hit = {} THEN [todo |-> user, err |-> TRUE, db |-> db]
     ELSE [todo |-> user, err |-> FALSE, db |-> (db \ hit) \cup {merged(t) : t \in hit}]

\* Save as an upsert: the row with that primary key is written whether or
\* not a live row matched.
SaveUpsert(db, user) ==
  [todo |-> user, err |-> FALSE, db |-> {t \in db : t.ID # user.ID} \cup {user}]

\* Save: UPDATE of every column of the live row with that primary key.
\* When no row is affected gorm falls back to FirstOrCreate, which fails
\* for the by-value argument and writes nothing.
Save(db, user) ==
  LET hit == {t \in Live(db) : t.ID = user.ID}
  IN IF hit = {} THEN [todo |-> user, err |-> TRUE, db |-> db]
     ELSE [todo |-> user, err |-> FALSE, db |-> (db \ hit) \cup {user}]

\* Delete without the soft-delete filter: matches deleted rows again.
DeleteUnscoped(db, id) ==
  LET hit == {t \in db : t.ID = id}
  IN [count |-> Cardinality(hit),
      db |-> (db \ hit) \cup {[t EXCEPT !.DeletedAt = DeleteTime] : t \in hit}]

\* Delete that loses the primary key condition: every live row is deleted.
DeleteWithoutCondition(db, id) ==
  LET hit == Live(db)
  IN [count |-> Cardinality(hit),
      db |-> (db \ hit) \cup {[t EXCEPT !.DeletedAt = DeleteTime] : t \in hit}]

\* Delete: soft delete of the live row with that primary key; returns
\* RowsAffected.
Delete(db, id) ==
  LET hit == {t \in Live(db) : t.ID = id}
  IN [count |-> Cardinality(hit),
      db |-> (db \ hit) \cup {[t EXCEPT !.DeletedAt = DeleteTime] : t \in hit}]

\* -------------------------------------------------------------- responses
\* What a handler sends: the status code and the value handed to c.JSON
\* (kind "todo", "list", "error" for a fiber.Map envelope, "nil" for
\* JSON(nil)); RowsAffected is kept for Delete.  op, param and body repeat
\* the request the response answers.
Reply(op, param, body, status, kind, message, item, items, count) ==
  [op |-> op, param |-> param, body |-> body, status |-> status, kind |-> kind,
   message |-> message, item |-> item, items |-> items, count |-> count]

NoReply == Reply("NONE", <<>>, NoBody, 0, "none", "", ZeroTodo, {}, 0)

Idle == [busy |-> FALSE, param |-> <<>>, todo |-> ZeroTodo]

\* ------------------------------------------------------------------ Init
Init ==
  /\ rows = {}
  /\ seq = 0
  /\ pending = [r \in Requests |-> Idle]
  /\ resp = NoReply

\* -------------------------------------------------------------- handlers
\* GET /todo
GetAll(db) == Reply("GETALL", <<>>, NoBody, 200, "list", "", ZeroTodo, FindAll(db), 0)

HandlerGetAll ==
  /\ resp' = GetAll(rows)
  /\ UNCHANGED <<rows, seq, pending>>

\* GET /todo/:id.  The Atoi error is overwritten by Find's; a segment that
\* does not parse is looked up as id 0.
Get(db, p) ==
  LET id == Atoi(p).val
      f == Find(db, id)
  IN IF f.err
     THEN Reply("GET", p, NoBody, 404, "error", "Todo not found", ZeroTodo, {}, 0)
     ELSE Reply("GET", p, NoBody, 200, "todo", "", f.todo, {}, 0)

HandlerGet(p) ==
  /\ resp' = Get(rows, p)
  /\ UNCHANGED <<rows, seq, pending>>

\* CreateTodo answering a body that does not decode with 400.
CreateTodoBadRequest(db, sq, b) ==
  LET bp == BodyParser(b)
      c == Create(db, sq, bp.data)
  IN IF bp.err \/ c.err
     THEN [db |-> db, seq |-> IF bp.err THEN sq ELSE c.seq,
           reply |-> Reply("POST", <<>>, b, 400, "error", "Failed creating item",
                           ZeroTodo, {}, 0)]
     ELSE [db |-> c.db, seq |-> c.seq,
           reply |-> Reply("POST", <<>>, b, 200, "todo", "", c.todo, {}, 0)]

\* POST /todo
CreateTodo(db, sq, b) ==
  LET bp == BodyParser(b)
      c == Create(db, sq, bp.data)
  IN IF bp.err
     THEN [db |-> db, seq |-> sq,
           reply |-> Reply("POST", <<>>, b, 500, "error", "Review your input", ZeroTodo, {}, 0)]
     ELSE IF c.err
     THEN [db |-> c.db, seq |-> c.seq,
           reply |-> Reply("POST", <<>>, b, 400, "error", "Failed creating item",
                           ZeroTodo, {}, 0)]
     ELSE [db |-> c.db, seq |-> c.seq,
           reply |-> Reply("POST", <<>>, b, 200, "todo", "", c.todo, {}, 0)]

\* The guard caps the id sequence at MaxId.
HandlerCreate(b) ==
  LET c == CreateTodo(rows, seq, b)
  IN /\ c.seq <= MaxId
     /\ rows' = c.db
     /\ seq' = c.seq
     /\ resp' = c.reply
     /\ UNCHANGED pending

\* UpdateFind answering a failed Find like a failed Atoi, with 400.
UpdateFindBadRequest(db, p, b) ==
  LET a == Atoi(p)
      f == Find(db, a.val)
  IN IF a.err \/ f.err
     THEN [done |-> TRUE, todo |-> ZeroTodo,
           reply |-> Reply("PUT", p, b, 400, "error", "Item not found", ZeroTodo, {}, 0)]
     ELSE [done |-> FALSE, todo |-> f.todo, reply |-> NoReply]

\* PUT /todo/:id, up to the return of repository.Find: done says the request
\* was answered here, todo is the row found otherwise.
UpdateFind(db, p, b) ==
  LET a == Atoi(p)
      f == Find(db, a.val)
  IN IF a.err
     THEN [done |-> TRUE, todo |-> ZeroTodo,
           reply |-> Reply("PUT", p, b, 400, "error", "Item not found", ZeroTodo, {}, 0)]
     ELSE IF f.err
     THEN [done |-> TRUE, todo |-> ZeroTodo,
           reply |-> Reply("PUT", p, b, 404, "error", "Item not found", ZeroTodo, {}, 0)]
     ELSE [done |-> FALSE, todo |-> f.todo, reply |-> NoReply]

\* UpdateSave as a merge: a member the body omits keeps the stored value.
UpdateSaveMerge(db, p, found, b) ==
  LET bp == BodyParser(b)
      todo == [found EXCEPT
                 !.Name = IF HasKey(b, "name") THEN bp.data.Name ELSE @,
                 !.Description = IF HasKey(b, "description") THEN bp.data.Description ELSE @,
                 !.Status = IF HasKey(b, "status") THEN bp.data.Status ELSE @]
      s == Save(db, todo)
  IN IF bp.err
     THEN [db |-> db,
           reply |-> Reply("PUT", p, b, 400, "error", "Review your input", ZeroTodo, {}, 0)]
     ELSE IF s.err
     THEN [db |-> s.db,
           reply |-> Reply("PUT", p, b, 400, "error", "Error updating todo", ZeroTodo, {}, 0)]
     ELSE [db |-> s.db, reply |-> Reply("PUT", p, b, 200, "todo", "", s.todo, {}, 0)]

\* PUT /todo/:id, from c.BodyParser to the response.
UpdateSave(db, p, found, b) ==
  LET bp == BodyParser(b)
      todo == [found EXCEPT !.Name = bp.data.Name,
                            !.Description = bp.data.Description,
                            !.Status = bp.data.Status]
      s == Save(db, todo)
  IN IF bp.err
     THEN [db |-> db,
           reply |-> Reply("PUT", p, b, 400, "error", "Review your input", ZeroTodo, {}, 0)]
     ELSE IF s.err
     THEN [db |-> s.db,
           reply |-> Reply("PUT", p, b, 400, "error", "Error updating todo", ZeroTodo, {}, 0)]
     ELSE [db |-> s.db, reply |-> Reply("PUT", p, b, 200, "todo", "", s.todo, {}, 0)]

\* PUT /todo/:id served without another request in between.
HandlerUpdate(p, b) ==
  LET f == UpdateFind(rows, p, b)
      s == UpdateSave(rows, p, f.todo, b)
  IN /\ rows' = IF f.done THEN rows ELSE s.db
     /\ resp' = IF f.done THEN f.reply ELSE s.reply
     /\ UNCHANGED <<seq, pending>>

\* PUT /todo/:id of request r, first half.  The body belongs to the request
\* but is first read after Find; it is drawn here for the requests that are
\* answered here and in the second half for the others.
HandlerUpdateFind(r, p, b) ==
  LET f == UpdateFind(rows, p, b)
  IN /\ ~pending[r].busy
     /\ IF f.done
        THEN resp' = f.reply /\ UNCHANGED pending
        ELSE /\ pending' = [pending EXCEPT ![r] = [busy |-> TRUE, param |-> p, todo |-> f.todo]]
             /\ UNCHANGED resp
     /\ UNCHANGED <<rows, seq>>

\* PUT /todo/:id of request r, second half.
HandlerUpdateSave(r, b) ==
  LET s == UpdateSave(rows, pending[r].param, pending[r].todo, b)
  IN /\ pending[r].busy
     /\ pending' = [pending EXCEPT ![r] = Idle]
     /\ rows' = s.db
     /\ resp' = s.reply
     /\ UNCHANGED seq

\* DeleteTodo answering a delete that affected no row with 404.
DeleteTodoNotFound(db, p) ==
  LET a == Atoi(p)
      d == Delete(db, a.val)
  IN IF a.err
     THEN [db |-> db,
           reply |-> Reply("DELETE", p, NoBody, 400, "error", "Failed deleting todo",
                           ZeroTodo, {}, 0)]
     ELSE [db |-> d.db,
           reply |-> Reply("DELETE", p, NoBody, IF d.count = 0 THEN 404 ELSE 204, "nil", "",
                           ZeroTodo, {}, d.count)]

\* DELETE /todo/:id
DeleteTodo(db, p) ==
  LET a == Atoi(p)
      d == Delete(db, a.val)
  IN IF a.err
     THEN [db |-> db,
           reply |-> Reply("DELETE", p, NoBody, 400, "error", "Failed deleting todo",
                           ZeroTodo, {}, 0)]
     ELSE [db |-> d.db,
           reply |-> Reply("DELETE", p, NoBody, IF d.count = 0 THEN 400 ELSE 204, "nil", "",
                           ZeroTodo, {}, d.count)]

HandlerDelete(p) ==
  LET d == DeleteTodo(rows, p)
  IN /\ rows' = d.db
     /\ resp' = d.reply
     /\ UNCHANGED <<seq, pending>>

\* Requests served one after the other.
Next ==
  \/ HandlerGetAll
  \/ \E p \in Params : HandlerGet(p)
  \/ \E b \in Bodies : HandlerCreate(b)
  \/ \E p \in Params, b \in Bodies : HandlerUpdate(p, b)
  \/ \E p \in Params : HandlerDelete(p)

Spec == Init /\ [][Next]_vars

\* Requests served concurrently: other requests run between the two store
\* calls of a PUT.
NextConc ==
  \/ HandlerGetAll
  \/ \E p \in ConcParams : HandlerGet(p)
  \/ \E b \in ConcBodies : HandlerCreate(b)
  \/ \E r \in Requests, p \in ConcParams, b \in ConcBodies : HandlerUpdateFind(r, p, b)
  \/ \E r \in Requests, b \in ConcBodies : HandlerUpdateSave(r, b)
  \/ \E p \in ConcParams : HandlerDelete(p)

SpecConc == Init /\ [][NextConc]_vars

\* ---------------------------------------------------------------- claims
\* The value a JSON body submits for a member: its value, or the empty
\* string when the member is omitted.
Submitted(body, k) ==
  IF \E m \in body.fields : m[1] = k
  THEN (CHOOSE m \in body.fields : m[1] = k)[2]
  ELSE ""

\* The id a path segment names, when it is a decimal integer.
Parses(p) == ~Atoi(p).err

IdOf(p) == Atoi(p).val

\* A stored, non-deleted Todo with that id.
Stored(db, id) == \E t \in db : t.ID = id /\ t.DeletedAt = NilTime

GetStep == resp'.op = "GET" /\ HandlerGet(resp'.param)

UpdateStep == resp'.op = "PUT" /\ HandlerUpdate(resp'.param, resp'.body)

DeleteStep == resp'.op = "DELETE" /\ HandlerDelete(resp'.param)

\* The request of the step names, with an id that parses, no stored Todo.
MissingId == Parses(resp'.param) /\ ~Stored(rows, IdOf(resp'.param))

\* C2 as stated: for an id that matches no stored Todo, GET, PUT and DELETE
\* all answer 404.
C2_MissingIdAlways404 ==
  [][((GetStep \/ UpdateStep \/ DeleteStep) /\ MissingId) => resp'.status = 404]_vars

\* C2 amended: for an id that matches no stored Todo, GET and PUT answer 404
\* whatever the body, and DELETE answers 400.
C2_MissingIdOutcome ==
  [][/\ ((GetStep \/ UpdateStep) /\ MissingId) => resp'.status = 404
     /\ (DeleteStep /\ MissingId) => resp'.status = 400]_vars

C2_Witness ==
  /\ resp.op = "PUT" /\ resp.status = 404 /\ resp.body = MalformedBody
  /\ Parses(resp.param) /\ ~Stored(rows, IdOf(resp.param))
  /\ \E t \in rows : t.ID = IdOf(resp.param) /\ t.DeletedAt = DeleteTime

\* C3: a DELETE of a stored id affects at least one row and answers 204, the
\* DELETE that follows it on the same id affects none and answers 400, and
\* the count is 0 exactly when no non-deleted row has the id.
C3_DeleteTwice ==
  [][(DeleteStep /\ Parses(resp'.param)) =>
        /\ Stored(rows, IdOf(resp'.param)) => (resp'.count >= 1 /\ resp'.status = 204)
        /\ (resp'.count = 0) <=> ~Stored(rows, IdOf(resp'.param))
        /\ (resp.op = "DELETE" /\ resp.param = resp'.param /\ resp.status = 204)
              => (resp'.count = 0 /\ resp'.status = 400)]_vars

C3_Witness ==
  /\ resp.op = "DELETE" /\ resp.status = 400 /\ resp.count = 0
  /\ Parses(resp.param)
  /\ \E t \in rows : t.ID = IdOf(resp.param) /\ t.DeletedAt = DeleteTime

\* C4: a PUT answered 200 leaves the stored Todo, and returns it, with name,
\* description and status equal to the values of the body, empty for a
\* member the body omits.
C4_UpdateReplacesAllFields ==
  [][(UpdateStep /\ resp'.status = 200) =>
        /\ resp'.item.ID = IdOf(resp'.param)
        /\ resp'.item \in rows'
        /\ \A t \in rows' : t.ID = IdOf(resp'.param) => t = resp'.item
        /\ resp'.item.Name = Submitted(resp'.body, "name")
        /\ resp'.item.Description = Submitted(resp'.body, "description")
        /\ resp'.item.Status = Submitted(resp'.body, "status")]_vars

C4_Witness ==
  /\ resp.op = "PUT" /\ resp.status = 200
  /\ ~(\E m \in resp.body.fields : m[1] = "description")
  /\ resp.item.Description = "" /\ resp.item.Name = "b"
  /\ resp.item \in rows

\* The path segment a client writes for an id of one digit.
ParamOfId(id) == <<DigitChar[id + 1]>>

\* C5 as stated: with no row deleted, GET /todo lists as many items as POSTs
\* were answered 200 (each added one row and none was removed), and
\* GET /todo/{id} of every listed item answers 200 with that item.
C5_ListedItemsRetrievable ==
  (resp.op = "GETALL" /\ \A t \in rows : t.DeletedAt = NilTime) =>
     /\ Cardinality(resp.items) = Cardinality(rows)
     /\ \A t \in resp.items :
          /\ Get(rows, ParamOfId(t.ID)).status = 200
          /\ Get(rows, ParamOfId(t.ID)).item = t

\* C6 as stated: after a POST answered 200 (for a Todo without a deletion
\* time), GET of its id returns the Todo the POST returned, DELETE of its id
\* answers 204 and GET after that answers 404; and GET of an id that a
\* DELETE removed answers 404.
C6_CreateGetDeleteGet ==
  /\ (resp.op = "POST" /\ resp.status = 200 /\ resp.item.DeletedAt = NilTime) =>
        LET p == ParamOfId(resp.item.ID)
            d == DeleteTodo(rows, p)
        IN /\ Get(rows, p).status = 200
           /\ Get(rows, p).item = resp.item
           /\ d.reply.status = 204
           /\ Get(d.db, p).status = 404
  /\ (resp.op = "GET" /\ Parses(resp.param)
        /\ \E t \in rows : t.ID = IdOf(resp.param) /\ t.DeletedAt = DeleteTime)
        => resp.status = 404

\* C7 as stated: GET /todo/{id} answers 404 with an error body when the id
\* does not parse or no stored Todo has it, and 200 with the stored Todo
\* otherwise.
C7_GetStatus ==
  resp.op = "GET" =>
     IF ~Parses(resp.param) \/ ~Stored(rows, IdOf(resp.param))
     THEN resp.status = 404 /\ resp.kind = "error"
     ELSE /\ resp.status = 200 /\ resp.kind = "todo"
          /\ resp.item \in rows /\ resp.item.ID = IdOf(resp.param)

\* C8: POST answers 500 for a body that does not decode, with the table and
\* the id sequence untouched; 400 when the body decodes and the insert is
\* rejected (the primary key is taken), with no row added; and 200 with the
\* inserted row, id included, otherwise.
C8_CreateStatus ==
  [][(resp'.op = "POST" /\ HandlerCreate(resp'.body)) =>
        LET b == resp'.body
            key == IF Submitted(b, "ID") = "" THEN seq + 1 ELSE DigitVal[Submitted(b, "ID")]
            rejected == \E t \in rows : t.ID = key
        IN /\ b.form # "json" => (resp'.status = 500 /\ rows' = rows /\ seq' = seq)
           /\ (b.form = "json" /\ rejected) => (resp'.status = 400 /\ rows' = rows)
           /\ (b.form = "json" /\ ~rejected) =>
                 /\ resp'.status = 200 /\ resp'.kind = "todo"
                 /\ resp'.item.ID = key
                 /\ resp'.item \notin rows
                 /\ rows' = rows \cup {resp'.item}]_vars

C8_Witness ==
  /\ resp.op = "POST" /\ resp.status = 400 /\ resp.body.form = "json"
  /\ Submitted(resp.body, "ID") = ""
  /\ \E t \in rows : t.ID = seq

\* C9 as stated: PUT answers 400 for an id that does not parse, else 404 when
\* no stored Todo has the id, else 400 for a body that does not decode, else
\* 200 (the write of a row that is there does not fail).
C9_UpdateCheckOrder ==
  resp.op = "PUT" =>
     resp.status = IF ~Parses(resp.param) THEN 400
                   ELSE IF ~Stored(rows, IdOf(resp.param)) THEN 404
                   ELSE IF resp.body.form # "json" THEN 400
                   ELSE 200

SaveStep(r) == resp'.op = "PUT" /\ pending[r].busy /\ HandlerUpdateSave(r, resp'.body)

\* C11: whenever the save of a PUT is answered 200, other PUTs on the id in
\* flight or not, the stored Todo of that id has name, description and
\* status all equal to the body of this latest save, and is the Todo
\* returned; no column keeps a value of an earlier save.
C11_LastWriterWins ==
  [][\A r \in Requests :
       (SaveStep(r) /\ resp'.status = 200) =>
          /\ \E t \in rows' : t.ID = pending[r].todo.ID /\ t.DeletedAt = NilTime
          /\ \A t \in rows' :
               t.ID = pending[r].todo.ID =>
                  /\ t = resp'.item
                  /\ t.Name = Submitted(resp'.body, "name")
                  /\ t.Description = Submitted(resp'.body, "description")
                  /\ t.Status = Submitted(resp'.body, "status")]_vars

\* One PUT was answered 200 while another PUT on the same id is between its
\* Find and its Save, holding a Todo the table no longer holds.
C11_Witness ==
  /\ resp.op = "PUT" /\ resp.status = 200 /\ resp.item \in rows
  /\ \E r \in Requests :
       /\ pending[r].busy
       /\ pending[r].todo.ID = resp.item.ID
       /\ pending[r].todo \notin rows

\* The ids of the rows of a table.
Ids(db) == {t.ID : t \in db}

\* C12 as stated: the ids of the stored Todos are pairwise distinct; the id
\* of every Todo a POST creates is the value the id sequence hands out for
\* that insert, whatever the body carries; and no request takes an id out
\* of the table or, other than a creating POST, puts one in.
C12_IdsSystemGeneratedUniqueImmutable ==
  [][/\ \A t, u \in rows' : t.ID = u.ID => t = u
     /\ (resp'.op = "POST" /\ HandlerCreate(resp'.body) /\ resp'.status = 200) =>
           (seq' = seq + 1 /\ resp'.item.ID = seq')
     /\ Ids(rows) \subseteq Ids(rows')
     /\ (resp'.op # "POST" \/ resp'.status # 200) => Ids(rows') = Ids(rows)]_vars

\* A stored, non-deleted Todo with that id and an empty name.
StoredNameless(db, id) ==
  \E t \in db : t.ID = id /\ t.DeletedAt = NilTime /\ t.Name = ""

\* C13: for a stored, non-deleted row with an empty name, Find reports an
\* error, GET and PUT of its id answer 404 and leave it as it is, and
\* GET /todo still returns it.
C13_EmptyNameReportedNotFound ==
  [][((GetStep \/ UpdateStep) /\ Parses(resp'.param)
        /\ StoredNameless(rows, IdOf(resp'.param))) =>
        /\ Find(rows, IdOf(resp'.param)).err
        /\ resp'.status = 404
        /\ rows' = rows
        /\ \E t \in GetAll(rows').items : t.ID = IdOf(resp'.param) /\ t.Name = ""]_vars

C13_Witness ==
  /\ resp.op = "PUT" /\ resp.status = 404 /\ resp.body.form = "json"
  /\ Parses(resp.param) /\ StoredNameless(rows, IdOf(resp.param))

\* C14: when a PUT saves after a DELETE removed the Todo it had found, the
\* save writes nothing: GET of the id answers 404 and GET /todo does not
\* list the id afterwards.  No step changes a row that is deleted.
C14_SaveAfterDeleteRevivesNothing ==
  [][/\ \A r \in Requests :
          (SaveStep(r) /\ ~Stored(rows, pending[r].todo.ID)) =>
             /\ rows' = rows
             /\ Get(rows', pending[r].param).status = 404
             /\ pending[r].todo.ID \notin Ids(GetAll(rows').items)
     /\ \A t \in rows : t.DeletedAt # NilTime => t \in rows']_vars

C14_Witness ==
  /\ resp.op = "PUT" /\ resp.message = "Error updating todo"
  /\ \E t \in rows : t.ID = IdOf(resp.param) /\ t.DeletedAt = DeleteTime
  /\ Get(rows, resp.param).status = 404

\* The rows of a table other than the one with that id.
Others(db, id) == {t \in db : t.ID # id}

\* C15: a GET, and every request answered 400, 404 or 500, leaves the table
\* as it is; a PUT answered 200 or a DELETE answered 204 on id X leaves
\* every row with another id, and the set of ids, as they are; a POST
\* answered 200 adds one row and leaves the others as they are.
C15_RequestsChangeOnlyTheirTarget ==
  [][/\ (resp'.op \in {"GET", "GETALL"} \/ resp'.status \in {400, 404, 500})
           => rows' = rows
     /\ ((UpdateStep /\ resp'.status = 200) \/ (DeleteStep /\ resp'.status = 204)) =>
           /\ Others(rows', IdOf(resp'.param)) = Others(rows, IdOf(resp'.param))
           /\ Ids(rows') = Ids(rows)
     /\ (resp'.op = "POST" /\ resp'.status = 200) =>
           (rows \subseteq rows' /\ Cardinality(rows' \ rows) = 1)]_vars

C15_Witness ==
  /\ resp.op = "DELETE" /\ resp.status = 204
  /\ \E t \in rows : t.ID = IdOf(resp.param) /\ t.DeletedAt = DeleteTime
  /\ \E t \in rows : t.ID # IdOf(resp.param) /\ t.DeletedAt = NilTime

====
